---------------------------- MODULE Spec2Model ----------------------------
(***************************************************************************)
(* A model of pdf2pptx.py: the conversion of a paginated document into a   *)
(* slide deck, one slide per page, with the page's links reproduced as     *)
(* transparent clickable overlays.                                         *)
(*                                                                         *)
(* Text is modelled in two ways.  The --aspect-ratio argument, which the   *)
(* program parses character by character (a regular expression, int(),    *)
(* float()), is a tuple of one-character strings.  Every other text (file  *)
(* names, URIs, executable paths) is a TLA+ string, composed with \o.      *)
(*                                                                         *)
(* A Python float that the program only ever turns into a Fraction bounded *)
(* to denominators <= 100 is carried as the exact rational <<n, d>> it     *)
(* approximates; limit_denominator is computed by the library's algorithm  *)
(* on that rational.                                                       *)
(***************************************************************************)
EXTENDS Integers, Sequences, FiniteSets, TLC

VARIABLES
    args,           \* the parsed command line: svg, aspect_ratio, inkscape_path
    pc,             \* the statement of __main__ the run is at
    i,              \* the page loop's index
    pdf,            \* the opened source document: page_count and each page's rect
    page,           \* the page loaded by the current loop iteration
    aspect_ratio,   \* the resolved Fraction <<numerator, denominator>>
    prs,            \* the presentation: slide_width, slide_height, slides
    links_info,     \* what extract_link returned for the current page
    output,         \* the destination file: <<>> until written, then the saved deck
    saves,          \* how many times the destination file was written
    exit_code,      \* the process's exit status (-1 while running)
    failure,        \* what ended the run early ("none" otherwise)
    diagnostics,    \* the warnings emitted so far
    probed,         \* the executables the pre-flight probe ran
    invoked,        \* the executables the per-page conversions ran
    rendered,       \* the page indices rendered so far
    composed        \* the page indices whose slide received its background

vars == <<args, pc, i, pdf, page, aspect_ratio, prs, links_info, output, saves,
          exit_code, failure, diagnostics, probed, invoked, rendered, composed>>

-----------------------------------------------------------------------------
(* Bounds of the model *)

\* longest --aspect-ratio argument explored
MaxLen == 4
\* largest page count of a source document
MaxPages == 2
\* most link annotations on one page of a whole run
MaxLinks == 1
\* most link annotations on the page whose composition is explored alone
MaxAnnotations == 2
\* most placeholders the template layout clones onto a new slide
MaxPlaceholders == 2

-----------------------------------------------------------------------------
(* Program constants *)

max_width == 9144000
max_height == 5143500
MaxDenominator == 100

-----------------------------------------------------------------------------
(* Integers and rationals *)

Abs(x) == IF x < 0 THEN -x ELSE x

RECURSIVE Gcd(_, _)
Gcd(a, b) == IF b = 0 THEN a ELSE Gcd(b, a % b)

\* fractions.Fraction(n, d): lowest terms, positive denominator
Reduced(n, d, g) == IF d < 0 THEN <<-(n \div g), -(d \div g)>> ELSE <<n \div g, d \div g>>

Fraction(n, d) == Reduced(n, d, Gcd(Abs(n), Abs(d)))

\* int(x) of a rational x = n/d, d > 0: truncation toward zero
Trunc(n, d) == IF n >= 0 THEN n \div d ELSE -((-n) \div d)

-----------------------------------------------------------------------------
(* Parsing the --aspect-ratio argument *)

Digit == {"0", "1", "2", "3", "4", "5", "6", "7", "8", "9"}

DigitValue(c) ==
    CASE c = "0" -> 0 [] c = "1" -> 1 [] c = "2" -> 2 [] c = "3" -> 3
      [] c = "4" -> 4 [] c = "5" -> 5 [] c = "6" -> 6 [] c = "7" -> 7
      [] c = "8" -> 8 [] c = "9" -> 9

\* int(s) of a string of decimal digits
RECURSIVE int(_)
int(s) ==
    IF Len(s) = 0 THEN 0
    ELSE 10 * int(SubSeq(s, 1, Len(s) - 1)) + DigitValue(s[Len(s)])

RECURSIVE Pow10(_)
Pow10(k) == IF k = 0 THEN 1 ELSE 10 * Pow10(k - 1)

\* \d+ : one or more digits
Digits1(s) == Len(s) >= 1 /\ \A k \in 1..Len(s) : s[k] \in Digit

\* \d* : zero or more digits
Digits0(s) == \A k \in 1..Len(s) : s[k] \in Digit

\* re.match(r"^(\d+):(\d+)$", s): the positions of a colon that splits s into
\* two digit groups (the set is empty when the pattern does not match)
MatchWH(s) ==
    {k \in 1..Len(s) : /\ s[k] = ":"
                       /\ Digits1(SubSeq(s, 1, k - 1))
                       /\ Digits1(SubSeq(s, k + 1, Len(s)))}

\* the text of a float literal without its sign
Unsigned(s) == IF Len(s) >= 1 /\ s[1] \in {"-", "+"} THEN Tail(s) ELSE s

\* the positions of a decimal point that makes u a float literal: digits on
\* both sides of the point, or on one side only ("1.", ".5"), never on none
PointAt(u) ==
    {k \in 1..Len(u) : /\ u[k] = "."
                       /\ Digits0(SubSeq(u, 1, k - 1))
                       /\ Digits0(SubSeq(u, k + 1, Len(u)))
                       /\ Len(u) >= 2}

\* whether float(s) returns (a decimal literal with optional sign and point);
\* otherwise float(s) raises ValueError.  The explored alphabet has no
\* letters that spell an exponent, "inf" or "nan", no blank and no "_".
IsFloat(s) == LET u == Unsigned(s) IN Digits1(u) \/ PointAt(u) # {}

\* the value of the unsigned literal u with its decimal point at position k
Decimal(u, k) ==
    <<int(SubSeq(u, 1, k - 1)) * Pow10(Len(u) - k) + int(SubSeq(u, k + 1, Len(u))),
      Pow10(Len(u) - k)>>

Magnitude(u) ==
    IF Digits1(u) THEN <<int(u), 1>> ELSE Decimal(u, CHOOSE p \in PointAt(u) : TRUE)

Signed(sign, m) == <<sign * m[1], m[2]>>

\* float(s) as the exact decimal value <<n, d>>
float(s) ==
    Signed(IF Len(s) >= 1 /\ s[1] = "-" THEN -1 ELSE 1, Magnitude(Unsigned(s)))

\* Fraction.limit_denominator's loop over the continued-fraction convergents:
\* returns <<p0, q0, p1, q1>> at the break
RECURSIVE Convergents(_, _, _, _, _, _, _)
Convergents(p0, q0, p1, q1, n, d, maxd) ==
    LET a  == n \div d
        q2 == q0 + a * q1
    IN  IF q2 > maxd THEN <<p0, q0, p1, q1>>
        ELSE Convergents(p1, q1, p0 + a * p1, q2, d, n - a * d, maxd)

\* the last lines of limit_denominator: of the two bounds, the one nearer to
\* f; abs(bound - f) is compared over the common denominator
Nearer(f, bound1, bound2) ==
    IF Abs(bound2[1] * f[2] - f[1] * bound2[2]) * bound1[2]
         <= Abs(bound1[1] * f[2] - f[1] * bound1[2]) * bound2[2]
    THEN bound2
    ELSE bound1

\* bound1 and bound2 from the convergents c = <<p0, q0, p1, q1>>, with
\* k = (maxd - q0) // q1
Bounds(f, c, k) ==
    Nearer(f, Fraction(c[1] + k * c[3], c[2] + k * c[4]), Fraction(c[3], c[4]))

LimitBy(f, c, maxd) == Bounds(f, c, (maxd - c[2]) \div c[4])

LimitFraction(f, maxd) ==
    IF f[2] <= maxd THEN f
    ELSE LimitBy(f, Convergents(0, 1, 1, 0, f[1], f[2], maxd), maxd)

\* Fraction(x).limit_denominator(maxd) of the rational x = <<n, d>>
limit_denominator(x, maxd) == LimitFraction(Fraction(x[1], x[2]), maxd)

Auto == <<"a", "u", "t", "o">>

\* the outcome of resolving the aspect ratio:
\*   failure  "none", or what ends the run
\*   ratio    the bounded Fraction (meaningful when failure = "none")
\*   warn     whether the mismatch warning is emitted
Outcome(e, ratio, warn) == [failure |-> e, ratio |-> ratio, warn |-> warn]

\* Lines 197-200, for the bounded ratio r
Checked(r, warn) ==
    Outcome(IF r[1] <= 0 THEN "NonPositiveAspectRatio" ELSE "none", r, warn)

\* Lines 191-200, for an explicitly given value x and the page's own ratio
Given(x, own) ==
    Checked(limit_denominator(x, MaxDenominator),
            limit_denominator(x, MaxDenominator) # own)

\* Line 183: int(W) / int(H), for the colon at position k
Quotient(s, k) == <<int(SubSeq(s, 1, k - 1)), int(SubSeq(s, k + 1, Len(s)))>>

GivenWH(q, own) ==
    IF q[2] = 0 THEN Outcome("ZeroDivisionError", <<0, 1>>, FALSE) ELSE Given(q, own)

\* Lines 178-200: the outcome of resolving the aspect ratio for the argument s
\* and the first page's rect <<width, height>>
ResolveAspect(s, rect) ==
    IF s = Auto
    THEN Checked(limit_denominator(rect, MaxDenominator), FALSE)
    ELSE IF MatchWH(s) # {}
    THEN GivenWH(Quotient(s, CHOOSE p \in MatchWH(s) : TRUE),
                 limit_denominator(rect, MaxDenominator))
    ELSE IF IsFloat(s)
    THEN Given(float(s), limit_denominator(rect, MaxDenominator))
    ELSE Outcome("InvalidAspectRatioFormat", <<0, 1>>, FALSE)

-----------------------------------------------------------------------------
(* Slide dimensions *)

\* Fraction arithmetic, with the common factors cancelled before multiplying
Cancelled(x, y, g1, g2) ==
    Fraction((x[1] \div g1) * (y[1] \div g2), (x[2] \div g2) * (y[2] \div g1))

Mul(x, y) == Cancelled(x, y, Gcd(Abs(x[1]), y[2]), Gcd(Abs(y[1]), x[2]))

Div(x, y) == Mul(x, <<y[2], y[1]>>)

\* x < y
Less(x, y) == x[1] * y[2] < y[1] * x[2]

\* Variant of optimal_width: the width is always max_width; the min() with
\* the width derived from max_height is missing
optimal_width_uncapped(r) == <<max_width, 1>>

\* Line 205: min(max_width, aspect_ratio * max_height), an exact Fraction.
\* min() is decided by aspect_ratio < max_width / max_height, the same
\* comparison as aspect_ratio * max_height < max_width with every product in
\* range.
optimal_width(r) ==
    IF Less(r, Fraction(max_width, max_height))
    THEN Mul(r, <<max_height, 1>>)
    ELSE <<max_width, 1>>

\* Line 206
optimal_height(w, r) == Div(w, r)

\* Lines 207-208: the integer parts
Dimensions(w, h) == <<Trunc(w[1], w[2]), Trunc(h[1], h[2])>>

WidthAndHeight(w, r) == Dimensions(w, optimal_height(w, r))

\* Lines 203-208: <<slide_width, slide_height>> for the ratio r
SlideSize(r) == WidthAndHeight(optimal_width(r), r)

-----------------------------------------------------------------------------
(* Link annotations *)

\* fitz's link kinds
LINK_NONE == "LINK_NONE"
LINK_GOTO == "LINK_GOTO"
LINK_URI == "LINK_URI"
LINK_LAUNCH == "LINK_LAUNCH"
LINK_NAMED == "LINK_NAMED"
LINK_GOTOR == "LINK_GOTOR"

DigitChar == <<"0", "1", "2", "3", "4", "5", "6", "7", "8", "9">>

\* str(n) of an integer n >= 0, as the f-string of line 51 formats it
RECURSIVE str(_)
str(n) ==
    IF n < 10 THEN DigitChar[n + 1]
    ELSE str(n \div 10) \o DigitChar[(n % 10) + 1]

\* Variant of NormRect: every coordinate divided by the page's width
NormRectByWidth(from, rect) ==
    <<Fraction(from[1], rect[1]), Fraction(from[2], rect[1]),
      Fraction(from[3], rect[1]), Fraction(from[4], rect[1])>>

\* Lines 26-29 (and 40-43, 56-59, 69-72): the annotation's rectangle
\* <<x0, y0, x1, y1>> divided by the page's width and height
NormRect(from, rect) ==
    <<Fraction(from[1], rect[1]), Fraction(from[2], rect[2]),
      Fraction(from[3], rect[1]), Fraction(from[4], rect[2])>>

\* Variant of Classify: the remote reference keeps the 0-based page index,
\* and a named destination on the current page is kept
ClassifyZeroBased(link, number, r) ==
    IF link.kind = LINK_URI THEN <<<<"uri", link.uri, r>>>>
    ELSE IF link.kind = LINK_GOTO
    THEN IF link.page >= 0 THEN <<<<"goto", link.page, r>>>> ELSE <<>>
    ELSE IF link.kind = LINK_GOTOR
    THEN <<<<"gotor",
             IF link.page >= 0
             THEN link.file \o "#page=" \o str(link.page)
             ELSE link.file,
             r>>>>
    ELSE IF link.kind = LINK_NAMED
    THEN IF link.page >= 0 THEN <<<<"goto", link.page, r>>>> ELSE <<>>
    ELSE <<>>

\* Lines 18-79: what one annotation appends to links_info (<<>> or one
\* entry), r being its normalized rectangle.  A raw annotation is
\* [kind, from, uri, page, file]; page = -1 and file = "" stand for an absent
\* field, the defaults of link.get.
Classify(link, number, r) ==
    IF link.kind = LINK_URI THEN <<<<"uri", link.uri, r>>>>
    ELSE IF link.kind = LINK_GOTO
    THEN IF link.page >= 0 THEN <<<<"goto", link.page, r>>>> ELSE <<>>
    ELSE IF link.kind = LINK_GOTOR
    THEN <<<<"gotor",
             IF link.page >= 0
             THEN link.file \o "#page=" \o str(link.page + 1)
             ELSE link.file,
             r>>>>
    ELSE IF link.kind = LINK_NAMED
    THEN IF link.page >= 0 /\ link.page # number
         THEN <<<<"goto", link.page, r>>>>
         ELSE <<>>
    ELSE <<>>

ExtractOne(link, pg) == Classify(link, pg.number, NormRect(link.from, pg.rect))

\* Lines 76-79: the warning one annotation raises (<<>> or one entry)
WarnOne(link, pg) ==
    IF link.kind \in {LINK_URI, LINK_GOTO, LINK_GOTOR, LINK_NAMED} THEN <<>>
    ELSE <<[warning |-> "Unsupported link kind", kind |-> link.kind,
            page |-> pg.number]>>

RECURSIVE ExtractFrom(_, _, _)
ExtractFrom(links, k, pg) ==
    IF k > Len(links) THEN <<>>
    ELSE ExtractOne(links[k], pg) \o ExtractFrom(links, k + 1, pg)

RECURSIVE WarnFrom(_, _, _)
WarnFrom(links, k, pg) ==
    IF k > Len(links) THEN <<>>
    ELSE WarnOne(links[k], pg) \o WarnFrom(links, k + 1, pg)

\* Lines 15-80: the list extract_link(page) returns
extract_link(pg) == ExtractFrom(pg.links, 1, pg)

\* the warnings extract_link(page) emits, in order
extract_link_warnings(pg) == WarnFrom(pg.links, 1, pg)

-----------------------------------------------------------------------------
(* Slides and shapes *)

Shape(type, has_text_frame, left, top, width, height, action) ==
    [type |-> type, has_text_frame |-> has_text_frame, left |-> left,
     top |-> top, width |-> width, height |-> height, action |-> action]

\* a placeholder cloned from the layout by add_slide: an autoshape, which has
\* a text frame
Placeholder(k) == Shape("placeholder", TRUE, 0, 0, 0, 0, <<"idx", k>>)

\* Lines 210-211: a slide as add_slide(layout) creates it
NewSlide(layout) == [k \in 1..layout |-> Placeholder(k)]

Sub(x, y) == Fraction(x[1] * y[2] - y[1] * x[2], x[2] * y[2])

\* the integer part of a * b / c for a, b >= 0 and c > 0, computed from the
\* quotients and remainders by c so that every product stays in range
MulDiv(a, b, c) ==
    (a \div c) * b + (a % c) * (b \div c) + ((a % c) * (b % c)) \div c

\* int(x * n) for a rational x and an integer n >= 0: truncation toward zero
Scale(x, n) ==
    IF x[1] >= 0 THEN MulDiv(x[1], n, x[2]) ELSE -MulDiv(-x[1], n, x[2])

\* Lines 84-91: the rectangle add_shape appends, before any click action
Overlay(rect, p) ==
    Shape("rectangle", TRUE,
          Scale(rect[1], p.slide_width),
          Scale(rect[2], p.slide_height),
          Scale(Sub(rect[3], rect[1]), p.slide_width),
          Scale(Sub(rect[4], rect[2]), p.slide_height),
          <<"none">>)

Added(slide, shape, action, error) ==
    [shapes |-> Append(slide, [shape EXCEPT !.action = action]), error |-> error]

\* Lines 92-99: wiring the click action of the shape just added
Wire(slide, shape, type, uri, p) ==
    IF type = "uri" THEN Added(slide, shape, <<"hyperlink", uri>>, "none")
    ELSE IF type = "goto"
    THEN IF -Len(p.slides) <= uri /\ uri < Len(p.slides)
         THEN Added(slide, shape, <<"target_slide", uri>>, "none")
         ELSE Added(slide, shape, <<"none">>, "IndexError: slide index out of range")
    ELSE IF type = "gotor" THEN Added(slide, shape, <<"hyperlink", uri>>, "none")
    ELSE Added(slide, shape, <<"none">>, "ValueError: Unsupported link type")

\* Lines 83-103: add_hyperlink.  The rectangle is added first; wiring the
\* click action may then raise.  Returns the slide's shapes and the error.
add_hyperlink(slide, type, uri, rect, p) ==
    Wire(slide, Overlay(rect, p), type, uri, p)

\* Lines 260-261: add_hyperlink for each entry of links_info in turn, stopping
\* at the first one that raises; r is the result so far
RECURSIVE AddAll(_, _, _, _)
AddAll(r, info, k, p) ==
    IF k > Len(info) \/ r.error # "none" THEN r
    ELSE AddAll(add_hyperlink(r.shapes, info[k][1], info[k][2], info[k][3], p),
                info, k + 1, p)

RemoveAt(t, k) == SubSeq(t, 1, k - 1) \o SubSeq(t, k + 1, Len(t))

\* Lines 233-235 and 248-250: "for shape in slide.shapes: if
\* shape.has_text_frame: remove it".  The iteration runs over the children of
\* the shape tree; lxml's child iterator fetches the successor of an element
\* before it yields the element, so removing the yielded element leaves the
\* iterator on the element that followed it.  k is the position of the
\* element the iterator yields next.
RECURSIVE RemoveLoop(_, _)
RemoveLoop(t, k) ==
    IF k > Len(t) THEN t
    ELSE IF t[k].has_text_frame THEN RemoveLoop(RemoveAt(t, k), k)
    ELSE RemoveLoop(t, k + 1)

\* the same loop over a position counter, as over a Python list: after a
\* removal the counter still advances and skips the element that moved up
RECURSIVE RemoveLoopByIndex(_, _)
RemoveLoopByIndex(t, k) ==
    IF k > Len(t) THEN t
    ELSE IF t[k].has_text_frame THEN RemoveLoopByIndex(RemoveAt(t, k), k + 1)
    ELSE RemoveLoopByIndex(t, k + 1)

RemoveTextFramesByIndex(shapes) == RemoveLoopByIndex(shapes, 1)

RemoveTextFrames(shapes) == RemoveLoop(shapes, 1)

\* Lines 236-242 and 251-257: the page's visual, filling the slide: the
\* metafile the converter wrote (SVG mode) or the PNG rendering
Picture(p, svg) ==
    Shape("picture", FALSE, 0, 0, p.slide_width, p.slide_height,
          <<IF svg THEN "emf" ELSE "png">>)

-----------------------------------------------------------------------------
(* The inputs explored *)

\* the characters an --aspect-ratio argument is made of
ArgAlphabet == {"0", "1", "3", "4", ":", ".", "-", "a"}

\* every argument of at most n characters, and "auto"
AspectArgs(n) == UNION {[1..m -> ArgAlphabet] : m \in 0..n} \cup {Auto}

\* the arguments a whole run is explored with: the default, a ratio, and one
\* argument for each way the resolution can end the run
RunAspectArgs ==
    {Auto, <<"4", ":", "3">>, <<"1", ":", "0">>, <<"a">>, <<"-", "1">>}

\* page sizes <<width, height>>
PageRects == {<<1920, 1080>>, <<595, 842>>}

InkscapePaths == {"inkscape", "/opt/inkscape/bin/inkscape"}

\* how running an external executable can end
Outcomes == {"ok", "nonzero", "notfound"}

RawLink(kind, from, uri, pg, file) ==
    [kind |-> kind, from |-> from, uri |-> uri, page |-> pg, file |-> file]

\* annotation rectangles on a page of size rect: the whole page, an empty
\* region, and a region that overhangs every edge of the page
FromRects(rect) ==
    {<<0, 0, rect[1], rect[2]>>,
     <<1, 1, 1, 1>>,
     <<-1, -1, rect[1] + 1, rect[2] + 1>>}

\* the annotations explored on a page of a document of n pages: a URI on each
\* rectangle and, over half the page, every other kind: jumps and named
\* destinations to no page (-1), to the first two pages and past the last
\* page, remote jumps with and without a page, and two unsupported kinds
RawLinks(rect, n) ==
         {RawLink(LINK_URI, f, "https://example.org/", -1, "") : f \in FromRects(rect)}
    \cup {RawLink(k, <<0, 0, rect[1] \div 2, rect[2] \div 2>>, "", t, "") :
             k \in {LINK_GOTO, LINK_NAMED}, t \in {-1, 0, 1, n}}
    \cup {RawLink(LINK_GOTOR, <<0, 0, rect[1] \div 2, rect[2] \div 2>>, "", t, "x.pdf") :
             t \in {-1, 2}}
    \cup {RawLink(k, <<0, 0, rect[1] \div 2, rect[2] \div 2>>, "", -1, "") :
             k \in {LINK_LAUNCH, LINK_NONE}}

\* the annotations a whole run is explored with, in a document of n pages: a
\* URI, a jump to the last page and a jump to the page after the last
RunRawLinks(rect, n) ==
    {RawLink(LINK_URI, <<0, 0, rect[1] \div 2, rect[2] \div 2>>,
             "https://example.org/", -1, ""),
     RawLink(LINK_GOTO, <<0, 0, rect[1] \div 2, rect[2] \div 2>>, "", n - 1, ""),
     RawLink(LINK_GOTO, <<0, 0, rect[1] \div 2, rect[2] \div 2>>, "", n, "")}

\* the lists of at most n annotations drawn from S
LinkLists(S, n) == UNION {[1..m -> S] : m \in 0..n}

-----------------------------------------------------------------------------
(* The run *)

\* exit(1), or an exception nothing catches: the interpreter exits with 1
Abort(e) ==
    /\ pc' = "exit"
    /\ exit_code' = 1
    /\ failure' = e

NoPage == [number |-> -1, rect |-> <<1, 1>>, links |-> <<>>]

NoPrs == [slide_width |-> 0, slide_height |-> 0, layout |-> 0, slides |-> <<>>]

Idle(a) ==
    /\ args = a
    /\ pc = "check_input"
    /\ i = 0
    /\ pdf = [page_count |-> 0, rects |-> <<>>]
    /\ page = NoPage
    /\ aspect_ratio = <<0, 1>>
    /\ prs = NoPrs
    /\ links_info = <<>>
    /\ output = <<>>
    /\ saves = 0
    /\ exit_code = -1
    /\ failure = "none"
    /\ diagnostics = <<>>
    /\ probed = <<>>
    /\ invoked = <<>>
    /\ rendered = {}
    /\ composed = {}

Init ==
    \E a \in [svg : BOOLEAN, aspect_ratio : RunAspectArgs,
              inkscape_path : InkscapePaths] : Idle(a)

\* Lines 151-158
CheckInput ==
    /\ pc = "check_input"
    /\ \E exists \in BOOLEAN :
          IF exists
          THEN pc' = "probe" /\ UNCHANGED <<exit_code, failure>>
          ELSE Abort("InputNotFound")
    /\ UNCHANGED <<args, i, pdf, page, aspect_ratio, prs, links_info, output,
                   saves, diagnostics, probed, invoked, rendered, composed>>

\* Variant of ProbeInkscape: the failed probe is reported but exit(1) is
\* missing, so the run goes on
ProbeInkscapeNoExit ==
    /\ pc = "probe"
    /\ pc' = "open"
    /\ IF args.svg
       THEN /\ probed' = Append(probed, args.inkscape_path)
            /\ \E o \in Outcomes :
                  CASE o = "ok" -> UNCHANGED failure
                    [] o = "nonzero" -> failure' = "ExternalToolUnavailable"
                    [] o = "notfound" -> failure' = "FileNotFoundError"
       ELSE UNCHANGED <<failure, probed>>
    /\ UNCHANGED <<args, i, pdf, page, aspect_ratio, prs, links_info, output,
                   saves, exit_code, diagnostics, invoked, rendered, composed>>

\* Lines 160-172
ProbeInkscape ==
    /\ pc = "probe"
    /\ IF args.svg
       THEN /\ probed' = Append(probed, args.inkscape_path)
            /\ \E o \in Outcomes :
                  CASE o = "ok" -> pc' = "open" /\ UNCHANGED <<exit_code, failure>>
                    [] o = "nonzero" -> Abort("ExternalToolUnavailable")
                    [] o = "notfound" -> Abort("FileNotFoundError")
       ELSE pc' = "open" /\ UNCHANGED <<exit_code, failure, probed>>
    /\ UNCHANGED <<args, i, pdf, page, aspect_ratio, prs, links_info, output,
                   saves, diagnostics, invoked, rendered, composed>>

\* the default template's slide size
DefaultWidth == 9144000
DefaultHeight == 6858000

\* Lines 174-177: the presentation and its first layout, the document, and
\* the first page's rect.  load_page(0) raises ValueError in a document
\* without pages.
OpenPdf ==
    /\ pc = "open"
    /\ \E n \in 0..MaxPages, r \in PageRects, l \in 0..MaxPlaceholders :
          /\ pdf' = [page_count |-> n, rects |-> [k \in 1..n |-> r]]
          /\ prs' = [slide_width |-> DefaultWidth, slide_height |-> DefaultHeight,
                     layout |-> l, slides |-> <<>>]
          /\ IF n = 0
             THEN Abort("ValueError: page not in document")
             ELSE pc' = "aspect" /\ UNCHANGED <<exit_code, failure>>
    /\ UNCHANGED <<args, i, page, aspect_ratio, links_info, output, saves,
                   diagnostics, probed, invoked, rendered, composed>>

Resolved(o) ==
    /\ diagnostics' =
          IF o.warn
          THEN Append(diagnostics, [warning |-> "AspectRatioMismatch"])
          ELSE diagnostics
    /\ IF o.failure = "none"
       THEN /\ aspect_ratio' = o.ratio
            /\ pc' = "size"
            /\ UNCHANGED <<exit_code, failure>>
       ELSE /\ Abort(o.failure)
            /\ UNCHANGED aspect_ratio

\* Lines 178-201
ResolveAspectRatio ==
    /\ pc = "aspect"
    /\ Resolved(ResolveAspect(args.aspect_ratio, pdf.rects[1]))
    /\ UNCHANGED <<args, i, pdf, page, prs, links_info, output, saves,
                   probed, invoked, rendered, composed>>

Sized(d) == prs' = [prs EXCEPT !.slide_width = d[1], !.slide_height = d[2]]

\* Lines 203-208
SetSlideSize ==
    /\ pc = "size"
    /\ Sized(SlideSize(aspect_ratio))
    /\ pc' = "alloc"
    /\ UNCHANGED <<args, i, pdf, page, aspect_ratio, links_info, output, saves,
                   exit_code, failure, diagnostics, probed, invoked, rendered,
                   composed>>

\* Lines 210-211
AddSlides ==
    /\ pc = "alloc"
    /\ prs' = [prs EXCEPT !.slides = [k \in 1..pdf.page_count |-> NewSlide(prs.layout)]]
    /\ i' = 0
    /\ pc' = IF pdf.page_count > 0 THEN "render" ELSE "save"
    /\ UNCHANGED <<args, pdf, page, aspect_ratio, links_info, output, saves,
                   exit_code, failure, diagnostics, probed, invoked, rendered,
                   composed>>

\* the executable the per-page conversion runs (line 224)
ConverterPath(a) == "inkscape"

\* Lines 214-231 and 244-246: load page i (its annotations are whatever the
\* document holds) and render it; in SVG mode, convert the rendering with the
\* external tool, which subprocess.run(check=True) lets end the run
RenderPage ==
    /\ pc = "render"
    /\ \E ls \in LinkLists(RunRawLinks(pdf.rects[i + 1], pdf.page_count), MaxLinks) :
          page' = [number |-> i, rect |-> pdf.rects[i + 1], links |-> ls]
    /\ rendered' = rendered \cup {i}
    /\ IF args.svg
       THEN /\ invoked' = Append(invoked, ConverterPath(args))
            /\ \E o \in Outcomes :
                  CASE o = "ok" -> pc' = "compose" /\ UNCHANGED <<exit_code, failure>>
                    [] o = "nonzero" -> Abort("CalledProcessError")
                    [] o = "notfound" -> Abort("FileNotFoundError")
       ELSE pc' = "compose" /\ UNCHANGED <<exit_code, failure, invoked>>
    /\ UNCHANGED <<args, i, pdf, aspect_ratio, prs, links_info, output, saves,
                   diagnostics, probed, composed>>

\* Lines 232-242 and 247-258
ComposeSlide ==
    /\ pc = "compose"
    /\ prs' = [prs EXCEPT !.slides[i + 1] =
                  Append(RemoveTextFrames(prs.slides[i + 1]), Picture(prs, args.svg))]
    /\ composed' = composed \cup {i}
    /\ pc' = "links"
    /\ UNCHANGED <<args, i, pdf, page, aspect_ratio, links_info, output, saves,
                   exit_code, failure, diagnostics, probed, invoked, rendered>>

Linked(r) ==
    /\ prs' = [prs EXCEPT !.slides[i + 1] = r.shapes]
    /\ IF r.error = "none"
       THEN /\ i' = i + 1
            /\ pc' = IF i + 1 < pdf.page_count THEN "render" ELSE "save"
            /\ UNCHANGED <<exit_code, failure>>
       ELSE /\ Abort(r.error)
            /\ UNCHANGED i

Extracted(info) ==
    /\ links_info' = info
    /\ Linked(AddAll([shapes |-> prs.slides[i + 1], error |-> "none"], info, 1, prs))

\* Lines 260-261, and the loop's step (line 213)
AddHyperlinks ==
    /\ pc = "links"
    /\ Extracted(extract_link(page))
    /\ diagnostics' = diagnostics \o extract_link_warnings(page)
    /\ UNCHANGED <<args, pdf, page, aspect_ratio, output, saves, probed,
                   invoked, rendered, composed>>

\* Variant of Save: prs.save indented into the page loop, writing the file
\* after each page
SaveInsideLoop ==
    /\ pc \in {"render", "save"}
    /\ saves < i
    /\ output' = <<[slide_width |-> prs.slide_width,
                    slide_height |-> prs.slide_height, slides |-> prs.slides]>>
    /\ saves' = saves + 1
    /\ pc' = IF pc = "save" /\ saves + 1 = i THEN "done" ELSE pc
    /\ exit_code' = IF pc = "save" /\ saves + 1 = i THEN 0 ELSE exit_code
    /\ UNCHANGED <<args, i, pdf, page, aspect_ratio, prs, links_info, failure,
                   diagnostics, probed, invoked, rendered, composed>>

\* Line 263
Save ==
    /\ pc = "save"
    /\ output' = <<[slide_width |-> prs.slide_width,
                    slide_height |-> prs.slide_height, slides |-> prs.slides]>>
    /\ saves' = saves + 1
    /\ pc' = "done"
    /\ exit_code' = 0
    /\ UNCHANGED <<args, i, pdf, page, aspect_ratio, prs, links_info, failure,
                   diagnostics, probed, invoked, rendered, composed>>

Next ==
    \/ CheckInput
    \/ ProbeInkscape
    \/ OpenPdf
    \/ ResolveAspectRatio
    \/ SetSlideSize
    \/ AddSlides
    \/ RenderPage
    \/ ComposeSlide
    \/ AddHyperlinks
    \/ Save

Spec == Init /\ [][Next]_vars

-----------------------------------------------------------------------------
(* The aspect-ratio resolution and the slide dimensions, for every argument *)

\* the run at line 178: the input exists, the probe (if any) succeeded, the
\* document of one page is open
InitGeometry ==
    \E s \in AspectArgs(MaxLen), r \in PageRects :
        /\ args = [svg |-> FALSE, aspect_ratio |-> s, inkscape_path |-> "inkscape"]
        /\ pc = "aspect"
        /\ i = 0
        /\ pdf = [page_count |-> 1, rects |-> <<r>>]
        /\ page = NoPage
        /\ aspect_ratio = <<0, 1>>
        /\ prs = [slide_width |-> DefaultWidth, slide_height |-> DefaultHeight,
                  layout |-> MaxPlaceholders, slides |-> <<>>]
        /\ links_info = <<>>
        /\ output = <<>>
        /\ saves = 0
        /\ exit_code = -1
        /\ failure = "none"
        /\ diagnostics = <<>>
        /\ probed = <<>>
        /\ invoked = <<>>
        /\ rendered = {}
        /\ composed = {}

NextGeometry == ResolveAspectRatio \/ SetSlideSize

SpecGeometry == InitGeometry /\ [][NextGeometry]_vars

-----------------------------------------------------------------------------
(* The composition of one page's slide, for every kind of annotation *)

\* the run at line 232 or 247 of the iteration for page n of a document of
\* MaxPages pages whose earlier pages carried no annotation: page n is
\* loaded and rendered, its slide still holds the layout's placeholders
InitPage ==
    \E r \in PageRects :
     \E ratio \in {ResolveAspect(Auto, r).ratio} :
      \E d \in {SlideSize(ratio)} :
       \E svg \in BOOLEAN, n \in 0..(MaxPages - 1), l \in 0..MaxPlaceholders :
        \E ls \in LinkLists(RawLinks(r, MaxPages), MaxAnnotations) :
          /\ args = [svg |-> svg, aspect_ratio |-> Auto, inkscape_path |-> "inkscape"]
          /\ pc = "compose"
          /\ i = n
          /\ pdf = [page_count |-> MaxPages, rects |-> [k \in 1..MaxPages |-> r]]
          /\ page = [number |-> n, rect |-> r, links |-> ls]
          /\ aspect_ratio = ratio
          /\ prs = [slide_width |-> d[1], slide_height |-> d[2], layout |-> l,
                    slides |-> [k \in 1..MaxPages |->
                       IF k <= n
                       THEN <<Shape("picture", FALSE, 0, 0, d[1], d[2],
                                    <<IF svg THEN "emf" ELSE "png">>)>>
                       ELSE NewSlide(l)]]
          /\ links_info = <<>>
          /\ output = <<>>
          /\ saves = 0
          /\ exit_code = -1
          /\ failure = "none"
          /\ diagnostics = <<>>
          /\ probed = IF svg THEN <<"inkscape">> ELSE <<>>
          /\ invoked = IF svg THEN [k \in 1..(n + 1) |-> "inkscape"] ELSE <<>>
          /\ rendered = 0..n
          /\ composed = 0..(n - 1)

NextPage == ComposeSlide \/ AddHyperlinks

SpecPage == InitPage /\ [][NextPage]_vars

-----------------------------------------------------------------------------
(* Properties *)

AllPages == 0..(pdf.page_count - 1)

\* x <= y for rationals with positive denominators
Leq(x, y) == x[1] * y[2] <= y[1] * x[2]

\* 0 <= x0 <= x1 <= 1 and 0 <= y0 <= y1 <= 1
UnitRect(r) ==
    /\ Leq(<<0, 1>>, r[1]) /\ Leq(r[1], r[3]) /\ Leq(r[3], <<1, 1>>)
    /\ Leq(<<0, 1>>, r[2]) /\ Leq(r[2], r[4]) /\ Leq(r[4], <<1, 1>>)

\* the raw rectangle lies within the page
Inside(from, rect) ==
    /\ 0 <= from[1] /\ from[1] <= from[3] /\ from[3] <= rect[1]
    /\ 0 <= from[2] /\ from[2] <= from[4] /\ from[4] <= rect[2]

\* r is the raw rectangle divided by the page's width and height
NormalizedFrom(r, from, rect) ==
    /\ r[1][1] * rect[1] = from[1] * r[1][2]
    /\ r[2][1] * rect[2] = from[2] * r[2][2]
    /\ r[3][1] * rect[1] = from[3] * r[3][2]
    /\ r[4][1] * rect[2] = from[4] * r[4][2]

\* C1: the destination file is written at most once and only after every
\* page has been rendered and composed without a failure; after any failure
\* the run has exited with nothing written.
C1_AllOrNothing ==
    /\ saves <= 1
    /\ (saves = 0 <=> output = <<>>)
    /\ (output # <<>> =>
           /\ failure = "none"
           /\ rendered = AllPages
           /\ composed = AllPages
           /\ i = pdf.page_count)
    /\ (failure # "none" => pc = "exit" /\ output = <<>> /\ saves = 0)

\* a document of MaxPages pages converted in SVG mode and saved
C1_Witness ==
    /\ pc = "done"
    /\ saves = 1
    /\ args.svg
    /\ pdf.page_count = MaxPages
    /\ Len(output[1].slides) = MaxPages

\* C2: for every input document, a zero-page document included, the run
\* produces an output document with page_count slides: opening no document
\* ends the run, the slide count is page_count from the pre-allocation on, and
\* the saved document has page_count slides.
C2_SlideCountEveryInput ==
    /\ failure # "ValueError: page not in document"
    /\ (pc \in {"render", "compose", "links", "save", "done"} =>
           Len(prs.slides) = pdf.page_count)
    /\ (output # <<>> => Len(output[1].slides) = pdf.page_count)

\* the failures of the configuration: of the probe, and of the aspect ratio
ConfigurationFatal ==
    \/ failure \in {"ExternalToolUnavailable", "InvalidAspectRatioFormat",
                    "NonPositiveAspectRatio", "ZeroDivisionError"}
    \/ failure = "FileNotFoundError" /\ invoked = <<>>

\* C3: when the probe fails, the tool is not found, or the aspect ratio is
\* invalid or not positive, the process has exit code 1 and no page was
\* rendered, no slide composed or allocated, and no file written.
C3_ConfigurationFatalsFirst ==
    ConfigurationFatal =>
        /\ pc = "exit"
        /\ exit_code = 1
        /\ rendered = {}
        /\ composed = {}
        /\ invoked = <<>>
        /\ prs.slides = <<>>
        /\ output = <<>>

\* SVG mode: the probe succeeded, then the aspect ratio was rejected
C3_Witness ==
    /\ args.svg
    /\ probed = <<args.inkscape_path>>
    /\ failure = "NonPositiveAspectRatio"
    /\ exit_code = 1

\* C4: resolving an explicit aspect ratio ends with a ratio > 0 and the run
\* going on, or with InvalidAspectRatioFormat, or with
\* NonPositiveAspectRatio, and in no other way.
C4_ThreeOutcomes ==
    (args.aspect_ratio # Auto /\ pc # "aspect") =>
        \/ failure = "none" /\ aspect_ratio[1] > 0 /\ aspect_ratio[2] > 0
        \/ failure = "InvalidAspectRatioFormat"
        \/ failure = "NonPositiveAspectRatio"

\* C5: for the resolved ratio n/d > 0 with d <= 100, the slide is at most
\* 9144000 wide and 5143500 high, and width/height equals n/d within the
\* truncation of both to integers (some x in [width, width+1) and y in
\* [height, height+1) have x/y = n/d); 16/9 gives 9144000 x 5143500 and 4/3
\* gives 6858000 x 5143500.
C5_SlideDimensions ==
    pc = "alloc" =>
        /\ aspect_ratio[1] > 0
        /\ aspect_ratio[2] \in 1..100
        /\ prs.slide_width \in 0..9144000
        /\ prs.slide_height \in 0..5143500
        /\ prs.slide_width * aspect_ratio[2] < (prs.slide_height + 1) * aspect_ratio[1]
        /\ prs.slide_height * aspect_ratio[1] < (prs.slide_width + 1) * aspect_ratio[2]
        /\ (aspect_ratio = <<16, 9>> =>
               prs.slide_width = 9144000 /\ prs.slide_height = 5143500)
        /\ (aspect_ratio = <<4, 3>> =>
               prs.slide_width = 6858000 /\ prs.slide_height = 5143500)

\* "4:3" given for a 1920 x 1080 page: the mismatch is reported and the slide
\* is 6858000 x 5143500
C5_Witness ==
    /\ pc = "alloc"
    /\ args.aspect_ratio = <<"4", ":", "3">>
    /\ pdf.rects[1] = <<1920, 1080>>
    /\ aspect_ratio = <<4, 3>>
    /\ prs.slide_width = 6858000
    /\ prs.slide_height = 5143500
    /\ diagnostics = <<[warning |-> "AspectRatioMismatch"]>>

\* C6, as claimed: every Link extract_link returned has its rect in the unit
\* square, 0 <= x0 <= x1 <= 1 and 0 <= y0 <= y1 <= 1, whatever the raw
\* rectangle.
C6_RectInUnitSquare ==
    \A k \in 1..Len(links_info) : UnitRect(links_info[k][3])

\* C6, amended: every Link's rect is a raw annotation rectangle of the page
\* divided by the page's width and height, and it lies in the unit square
\* whenever that raw rectangle lies within the page.
C6_RectInUnitSquareWithinPage ==
    \A k \in 1..Len(links_info) :
        \E j \in 1..Len(page.links) :
            /\ NormalizedFrom(links_info[k][3], page.links[j].from, page.rect)
            /\ Inside(page.links[j].from, page.rect) => UnitRect(links_info[k][3])

\* a portrait page whose one annotation covers the whole page
C6_Witness ==
    /\ page.rect = <<595, 842>>
    /\ Len(page.links) = 1
    /\ page.links[1].from = <<0, 0, 595, 842>>
    /\ Len(links_info) = 1
    /\ links_info[1][3] = <<<<0, 1>>, <<0, 1>>, <<1, 1>>, <<1, 1>>>>

\* the classification table: the kind and target one raw annotation yields on
\* page number, <<>> when it is dropped
TableEntry(l, number) ==
    CASE l.kind = LINK_URI -> <<<<"uri", l.uri>>>>
      [] l.kind = LINK_GOTO /\ l.page >= 0 -> <<<<"goto", l.page>>>>
      [] l.kind = LINK_GOTOR /\ l.page >= 0 ->
            <<<<"gotor", l.file \o "#page=" \o ToString(l.page + 1)>>>>
      [] l.kind = LINK_GOTOR /\ l.page < 0 -> <<<<"gotor", l.file>>>>
      [] l.kind = LINK_NAMED /\ l.page >= 0 /\ l.page # number ->
            <<<<"goto", l.page>>>>
      [] OTHER -> <<>>

\* the diagnostic the table asks for
TableWarning(l, number) ==
    IF l.kind \in {LINK_URI, LINK_GOTO, LINK_GOTOR, LINK_NAMED} THEN <<>>
    ELSE <<[warning |-> "Unsupported link kind", kind |-> l.kind, page |-> number]>>

RECURSIVE Table(_, _, _)
Table(links, k, number) ==
    IF k > Len(links) THEN <<>>
    ELSE TableEntry(links[k], number) \o Table(links, k + 1, number)

RECURSIVE TableWarnings(_, _, _)
TableWarnings(links, k, number) ==
    IF k > Len(links) THEN <<>>
    ELSE TableWarning(links[k], number) \o TableWarnings(links, k + 1, number)

\* C7: once the page's links are extracted, links_info lists, in the order of
\* the annotations, exactly the kinds and targets of the classification
\* table, and the warnings name each unsupported annotation's kind and page;
\* file "x.pdf" with page index 2 yields "x.pdf#page=3".
C7_Classification ==
    pc \in {"render", "save", "exit"} =>
        /\ [k \in 1..Len(links_info) |-> <<links_info[k][1], links_info[k][2]>>]
              = Table(page.links, 1, page.number)
        /\ diagnostics = TableWarnings(page.links, 1, page.number)
        /\ \A j \in 1..Len(page.links) :
              (page.links[j].kind = LINK_GOTOR /\ page.links[j].file = "x.pdf"
                  /\ page.links[j].page = 2)
              => \E k \in 1..Len(links_info) :
                    links_info[k][1] = "gotor" /\ links_info[k][2] = "x.pdf#page=3"

\* an unsupported annotation followed by a remote jump: the first is dropped
\* with a warning, the second is kept
C7_Witness ==
    /\ pc \in {"render", "save"}
    /\ Len(page.links) = 2
    /\ page.links[1].kind = LINK_LAUNCH
    /\ page.links[2].kind = LINK_GOTOR
    /\ Len(links_info) = 1
    /\ links_info[1][2] = "x.pdf#page=3"
    /\ Len(diagnostics) = 1

\* the visual that fills the slide
IsBackground(sh) ==
    /\ sh.type = "picture"
    /\ sh.left = 0 /\ sh.top = 0
    /\ sh.width = prs.slide_width /\ sh.height = prs.slide_height

\* C8: a composed slide holds no placeholder with a text frame; after the
\* composition it holds the background alone, and after the page's links are
\* added, the background followed by one rectangle per Link extract_link
\* returned (none for a page without retained links).
C8_NoPlaceholderLeft ==
    /\ \A n \in composed : \A k \in 1..Len(prs.slides[n + 1]) :
          ~(prs.slides[n + 1][k].type = "placeholder"
              /\ prs.slides[n + 1][k].has_text_frame)
    /\ (pc = "links" =>
           /\ Len(prs.slides[i + 1]) = 1
           /\ IsBackground(prs.slides[i + 1][1]))
    /\ (pc \in {"render", "save"} /\ page.number >= 0 =>
           /\ Len(prs.slides[page.number + 1]) = 1 + Len(links_info)
           /\ IsBackground(prs.slides[page.number + 1][1])
           /\ \A k \in 2..Len(prs.slides[page.number + 1]) :
                 prs.slides[page.number + 1][k].type = "rectangle")

\* SVG mode, a layout of MaxPlaceholders placeholders, a page whose only
\* annotation is dropped: the slide holds one shape
C8_Witness ==
    /\ pc \in {"render", "save"}
    /\ args.svg
    /\ prs.layout = MaxPlaceholders
    /\ Len(page.links) = 1
    /\ links_info = <<>>
    /\ Len(prs.slides[page.number + 1]) = 1
    /\ prs.slides[page.number + 1][1].action = <<"emf">>

\* C9: every GotoPage Link extract_link emits targets a page of the document,
\* whose slide exists when add_hyperlink wires it, so that wiring never ends
\* the run.
C9_GotoTargetsExist ==
    /\ \A k \in 1..Len(links_info) :
          links_info[k][1] = "goto" =>
              /\ links_info[k][2] \in AllPages
              /\ links_info[k][2] < Len(prs.slides)
    /\ failure \notin {"IndexError: slide index out of range",
                       "ValueError: Unsupported link type"}

\* C10: in SVG mode every per-page conversion runs the executable the probe
\* checked, the one given by --inkscape-path.
C10_ConverterIsProbedTool ==
    \A k \in 1..Len(invoked) :
        /\ invoked[k] = args.inkscape_path
        /\ probed = <<invoked[k]>>

=============================================================================
